---- MODULE Spec2Model ----
(***************************************************************************)
(* Model of the arena-backed directed graph of src/src/lib.rs:             *)
(* Graph<N, E> with NodeRef / EdgeRef index handles, the construction API  *)
(* (node, directed_edge, undirected_edge), Index / IndexMut, the visitor   *)
(* based traversals visit_dfs / visit_bfs, and max_flow / min_cut.         *)
(*                                                                         *)
(* A NodeRef or EdgeRef is modelled by its idx field (a natural number,    *)
(* 0-based as in the source); a Vec is a sequence, so slot idx of a Vec v  *)
(* is v[idx + 1].                                                          *)
(***************************************************************************)
EXTENDS Integers, Sequences, FiniteSets, TLC

VARIABLES
    graph,      \* the Graph: [nodes, edges, adjacency, incidence]
    fault,      \* TRUE once a call has panicked (index out of range)
    ret,        \* value returned by the last call, as a tuple (<<>> = no value)
    lastCall,   \* the last call made: [op, args, nlen, elen], lengths as of the call
    nodeCalls,  \* caller's record per node handle: [r, n], n the payload last given for r
    edgeCalls,  \* caller's record per edge handle: [r, from, to, e], e the payload last given
    undirCalls, \* caller's record of every completed undirected_edge call
    mode,       \* "idle"; "dfs" / "bfs" while a traversal runs; "dfs_done" / "bfs_done"
    begin,      \* start node of the traversal in progress
    visited,    \* the traversal's visited vector
    queue,      \* bfs: the VecDeque
    stack,      \* dfs: the stack of dfs activations; bfs: the for loop in progress
    events,     \* the visitor invocations so far, in order
    pushes      \* bfs: number of queue.push_back calls so far

vars == <<graph, fault, ret, lastCall, nodeCalls, edgeCalls, undirCalls,
          mode, begin, visited, queue, stack, events, pushes>>

buildVars == <<graph, fault, ret, lastCall, nodeCalls, edgeCalls, undirCalls>>
travVars == <<mode, begin, visited, queue, stack, events, pushes>>

(***************************************************************************)
(* Bounds                                                                  *)
(***************************************************************************)
MaxNodes == 2       \* construction model: nodes
MaxEdges == 2       \* construction model: edges
InvMaxEdges == 2    \* invalid-handle model: edges
TravMaxNodes == 3   \* traversal model: nodes
TravMaxEdges == 2   \* traversal model: edges
LiveMaxNodes == 2   \* termination model: nodes
LiveMaxEdges == 3   \* termination model: edges
FlowMaxNodes == 2   \* flow model: nodes
FlowMaxEdges == 2   \* flow model: edges
MaxCap == 2         \* flow model: capacities are 0..MaxCap

\* Payload values.  Graph<N, E> is generic in N and E and never inspects a
\* payload, so two distinguishable values show any mix-up of slots.
Payloads == {0, 1}

(***************************************************************************)
(* Vec helpers                                                             *)
(***************************************************************************)
\* v[idx] of the source
At(v, idx) == v[idx + 1]

\* bounds check of v[idx]
InRange(v, idx) == idx >= 0 /\ idx < Len(v)

(***************************************************************************)
(* Graph construction                                                      *)
(***************************************************************************)
\* Graph::default / Graph::empty
empty ==
    [nodes |-> <<>>, edges |-> <<>>, adjacency |-> <<>>, incidence |-> <<>>]

\* Graph::node returning the length after the push
node_after_push(g, n) ==
    LET r == Len(g.nodes) + 1
    IN  [g |-> [g EXCEPT !.nodes = Append(@, n),
                         !.adjacency = Append(@, <<>>)],
         r |-> <<r>>,
         fault |-> FALSE]

\* Graph::node
node(g, n) ==
    LET r == Len(g.nodes)
    IN  [g |-> [g EXCEPT !.nodes = Append(@, n),
                         !.adjacency = Append(@, <<>>)],
         r |-> <<r>>,
         fault |-> FALSE]

\* Graph::directed_edge with the incidence entry reversed
directed_edge_swapped(g, from, to, e) ==
    LET r == Len(g.edges)
        g1 == [g EXCEPT !.edges = Append(@, e)]
    IN  IF ~InRange(g1.adjacency, from)
        THEN [g |-> g1, r |-> <<>>, fault |-> TRUE]
        ELSE [g |-> [g1 EXCEPT
                        !.adjacency[from + 1] = Append(@, [node |-> to, edge |-> r]),
                        !.incidence = Append(@, [from |-> to, to |-> from])],
              r |-> <<r>>,
              fault |-> FALSE]

\* Graph::directed_edge: the payload is pushed first, then adjacency[from.idx]
\* is indexed (the only bounds check), then the incidence entry is pushed
directed_edge(g, from, to, e) ==
    LET r == Len(g.edges)
        g1 == [g EXCEPT !.edges = Append(@, e)]
    IN  IF ~InRange(g1.adjacency, from)
        THEN [g |-> g1, r |-> <<>>, fault |-> TRUE]
        ELSE [g |-> [g1 EXCEPT
                        !.adjacency[from + 1] = Append(@, [node |-> to, edge |-> r]),
                        !.incidence = Append(@, [from |-> from, to |-> to])],
              r |-> <<r>>,
              fault |-> FALSE]

\* Graph::undirected_edge creating b->a first
undirected_edge_reversed(g, a, b, e) ==
    LET c1 == directed_edge(g, b, a, e)
        c2 == directed_edge(c1.g, a, b, e)
    IN  IF c1.fault THEN [g |-> c1.g, r |-> <<>>, fault |-> TRUE]
        ELSE IF c2.fault THEN [g |-> c2.g, r |-> <<>>, fault |-> TRUE]
        ELSE [g |-> c2.g, r |-> c1.r \o c2.r, fault |-> FALSE]

\* Graph::undirected_edge: directed_edge(a, b, e.clone()) then directed_edge(b, a, e)
undirected_edge(g, a, b, e) ==
    LET c1 == directed_edge(g, a, b, e)
        c2 == directed_edge(c1.g, b, a, e)
    IN  IF c1.fault THEN [g |-> c1.g, r |-> <<>>, fault |-> TRUE]
        ELSE IF c2.fault THEN [g |-> c2.g, r |-> <<>>, fault |-> TRUE]
        ELSE [g |-> c2.g, r |-> c1.r \o c2.r, fault |-> FALSE]

(***************************************************************************)
(* Index / IndexMut                                                        *)
(***************************************************************************)
\* Index<NodeRef>::index
index_node(g, index) ==
    IF InRange(g.nodes, index)
    THEN [r |-> <<At(g.nodes, index)>>, fault |-> FALSE]
    ELSE [r |-> <<>>, fault |-> TRUE]

\* Index<EdgeRef>::index
index_edge(g, index) ==
    IF InRange(g.edges, index)
    THEN [r |-> <<At(g.edges, index)>>, fault |-> FALSE]
    ELSE [r |-> <<>>, fault |-> TRUE]

\* IndexMut<NodeRef>::index_mut followed by the caller's assignment of n
index_mut_node(g, index, n) ==
    IF InRange(g.nodes, index)
    THEN [g |-> [g EXCEPT !.nodes[index + 1] = n], fault |-> FALSE]
    ELSE [g |-> g, fault |-> TRUE]

\* IndexMut<EdgeRef>::index_mut followed by the caller's assignment of e
index_mut_edge(g, index, e) ==
    IF InRange(g.edges, index)
    THEN [g |-> [g EXCEPT !.edges[index + 1] = e], fault |-> FALSE]
    ELSE [g |-> g, fault |-> TRUE]

(***************************************************************************)
(* Initial state: Graph::empty(), nothing called yet                       *)
(***************************************************************************)
NoCall == [op |-> "none", args |-> <<>>, nlen |-> 0, elen |-> 0]

Call(op, args) ==
    [op |-> op, args |-> args, nlen |-> Len(graph.nodes), elen |-> Len(graph.edges)]

Init ==
    /\ graph = empty
    /\ fault = FALSE
    /\ ret = <<>>
    /\ lastCall = NoCall
    /\ nodeCalls = <<>>
    /\ edgeCalls = <<>>
    /\ undirCalls = <<>>
    /\ mode = "idle"
    /\ begin = 0
    /\ visited = <<>>
    /\ queue = <<>>
    /\ stack = <<>>
    /\ events = <<>>
    /\ pushes = 0

\* a call can be made: no panic so far and no traversal borrowing the graph
Callable == ~fault /\ mode = "idle"

(***************************************************************************)
(* Calls of the construction API                                           *)
(***************************************************************************)
Node(n) ==
    /\ Callable
    /\ LET c == node(graph, n)
       IN  /\ graph' = c.g
           /\ ret' = c.r
           /\ nodeCalls' = Append(nodeCalls, [r |-> c.r[1], n |-> n])
    /\ lastCall' = Call("node", <<n>>)
    /\ UNCHANGED <<fault, edgeCalls, undirCalls>>
    /\ UNCHANGED travVars

DirectedEdge(from, to, e) ==
    /\ Callable
    /\ LET c == directed_edge(graph, from, to, e)
       IN  /\ graph' = c.g
           /\ ret' = c.r
           /\ fault' = c.fault
           /\ edgeCalls' =
                IF c.fault THEN edgeCalls
                ELSE Append(edgeCalls, [r |-> c.r[1], from |-> from, to |-> to, e |-> e])
    /\ lastCall' = Call("directed_edge", <<from, to, e>>)
    /\ UNCHANGED <<nodeCalls, undirCalls>>
    /\ UNCHANGED travVars

UndirectedEdge(a, b, e) ==
    /\ Callable
    /\ LET c == undirected_edge(graph, a, b, e)
       IN  /\ graph' = c.g
           /\ ret' = c.r
           /\ fault' = c.fault
           /\ edgeCalls' =
                IF c.fault THEN edgeCalls
                ELSE edgeCalls \o
                     << [r |-> c.r[1], from |-> a, to |-> b, e |-> e],
                        [r |-> c.r[2], from |-> b, to |-> a, e |-> e] >>
           /\ undirCalls' =
                IF c.fault THEN undirCalls
                ELSE Append(undirCalls, [a |-> a, b |-> b, r |-> c.r])
    /\ lastCall' = Call("undirected_edge", <<a, b, e>>)
    /\ UNCHANGED nodeCalls
    /\ UNCHANGED travVars

IndexNode(index) ==
    /\ Callable
    /\ LET c == index_node(graph, index)
       IN  /\ ret' = c.r
           /\ fault' = c.fault
    /\ lastCall' = Call("index_node", <<index>>)
    /\ UNCHANGED <<graph, nodeCalls, edgeCalls, undirCalls>>
    /\ UNCHANGED travVars

IndexEdge(index) ==
    /\ Callable
    /\ LET c == index_edge(graph, index)
       IN  /\ ret' = c.r
           /\ fault' = c.fault
    /\ lastCall' = Call("index_edge", <<index>>)
    /\ UNCHANGED <<graph, nodeCalls, edgeCalls, undirCalls>>
    /\ UNCHANGED travVars

IndexMutNode(index, n) ==
    /\ Callable
    /\ LET c == index_mut_node(graph, index, n)
       IN  /\ graph' = c.g
           /\ fault' = c.fault
    /\ ret' = <<>>
    /\ nodeCalls' = [k \in 1..Len(nodeCalls) |->
            IF nodeCalls[k].r = index THEN [nodeCalls[k] EXCEPT !.n = n] ELSE nodeCalls[k]]
    /\ lastCall' = Call("index_mut_node", <<index, n>>)
    /\ UNCHANGED <<edgeCalls, undirCalls>>
    /\ UNCHANGED travVars

IndexMutEdge(index, e) ==
    /\ Callable
    /\ LET c == index_mut_edge(graph, index, e)
       IN  /\ graph' = c.g
           /\ fault' = c.fault
    /\ ret' = <<>>
    /\ edgeCalls' = [k \in 1..Len(edgeCalls) |->
            IF edgeCalls[k].r = index THEN [edgeCalls[k] EXCEPT !.e = e] ELSE edgeCalls[k]]
    /\ lastCall' = Call("index_mut_edge", <<index, e>>)
    /\ UNCHANGED <<nodeCalls, undirCalls>>
    /\ UNCHANGED travVars

(***************************************************************************)
(* Construction with valid handles only                                    *)
(***************************************************************************)
NodeRefs == 0..(Len(graph.nodes) - 1)
EdgeRefs == 0..(Len(graph.edges) - 1)

Next ==
    \/ \E n \in Payloads : Len(graph.nodes) < MaxNodes /\ Node(n)
    \/ \E from \in NodeRefs, to \in NodeRefs, e \in Payloads :
            Len(graph.edges) < MaxEdges /\ DirectedEdge(from, to, e)
    \/ \E a \in NodeRefs, b \in NodeRefs, e \in Payloads :
            Len(graph.edges) + 1 < MaxEdges /\ UndirectedEdge(a, b, e)
    \/ \E index \in NodeRefs, n \in Payloads :
            IndexMutNode(index, n)
    \/ \E index \in EdgeRefs, e \in Payloads :
            IndexMutEdge(index, e)

Spec == Init /\ [][Next]_vars

(***************************************************************************)
(* Properties of the construction API                                      *)
(***************************************************************************)
\* the places <<u, i>> of the adjacency lists that hold an entry for edge e
AdjPlaces(g, e) ==
    { p \in UNION { {<<u, i>> : i \in 1..Len(g.adjacency[u])} : u \in 1..Len(g.adjacency) } :
        g.adjacency[p[1]][p[2]].edge = e }

\* C1: for every edge e created as u->v through the API with valid handles,
\* incidence[e] = (u, v), adjacency[u] holds (v, e) exactly once, and no
\* other adjacency list holds an entry for e; every stored edge was created
\* by such a call.
AdjacencyIncidenceConsistent ==
    /\ Len(graph.incidence) = Len(graph.edges)
    /\ Len(graph.adjacency) = Len(graph.nodes)
    /\ Len(edgeCalls) = Len(graph.edges)
    /\ \A k \in 1..Len(edgeCalls) :
        LET c == edgeCalls[k]
        IN  /\ InRange(graph.incidence, c.r)
            /\ At(graph.incidence, c.r) = [from |-> c.from, to |-> c.to]
            /\ Cardinality(AdjPlaces(graph, c.r)) = 1
            /\ \A p \in AdjPlaces(graph, c.r) :
                /\ p[1] = c.from + 1
                /\ graph.adjacency[p[1]][p[2]] = [node |-> c.to, edge |-> c.r]

\* C1 witness: a graph of two nodes holding two parallel self-loops
SelfLoopAndParallelEdges ==
    /\ Len(graph.nodes) = 2
    /\ \E j, k \in 1..Len(edgeCalls) :
        /\ j # k
        /\ edgeCalls[j].from = edgeCalls[k].from
        /\ edgeCalls[j].to = edgeCalls[k].to
        /\ edgeCalls[j].from = edgeCalls[j].to

\* C2: the handle returned by the k-th node (edge) creation is the index its
\* payload was stored at, differs from every other handle of its kind, and
\* indexing with it yields, after any later additions and any writes to
\* other handles, the payload the caller last gave for it: the payload
\* passed at creation unless the caller wrote through IndexMut to it.
HandleStability ==
    /\ \A k \in 1..Len(nodeCalls) :
        LET c == nodeCalls[k]
        IN  /\ c.r = k - 1
            /\ index_node(graph, c.r) = [r |-> <<c.n>>, fault |-> FALSE]
            /\ \A j \in 1..Len(nodeCalls) : j # k => nodeCalls[j].r # c.r
    /\ \A k \in 1..Len(edgeCalls) :
        LET c == edgeCalls[k]
        IN  /\ c.r = k - 1
            /\ index_edge(graph, c.r) = [r |-> <<c.e>>, fault |-> FALSE]
            /\ \A j \in 1..Len(edgeCalls) : j # k => edgeCalls[j].r # c.r

\* C2 witness: two nodes and two edges exist, the first of each created with
\* a payload other than the second's, and one edge has since been overwritten
HandlesSurviveAdditions ==
    /\ Len(nodeCalls) = 2 /\ Len(edgeCalls) = 2
    /\ nodeCalls[1].n # nodeCalls[2].n
    /\ lastCall.op = "index_mut_edge"
    /\ edgeCalls[1].e # edgeCalls[2].e

\* C3: undirected_edge(a, b, p) returns [e1, e2] with e2 = e1 + 1, e1
\* connects a->b and e2 connects b->a, both hold p when the call returns, and
\* a payload slot changes only by an IndexMut write to that very handle, so
\* a write to one half leaves the other half unchanged; a = b included.
UndirectedMirroring ==
    /\ [](/\ \A k \in 1..Len(undirCalls) :
                LET u == undirCalls[k]
                IN  /\ Len(u.r) = 2
                    /\ u.r[1] # u.r[2]
                    /\ u.r[2] = u.r[1] + 1
                    /\ At(graph.incidence, u.r[1]) = [from |-> u.a, to |-> u.b]
                    /\ At(graph.incidence, u.r[2]) = [from |-> u.b, to |-> u.a]
          /\ lastCall.op = "undirected_edge" =>
                /\ Len(undirCalls) > 0
                /\ ret = undirCalls[Len(undirCalls)].r
                /\ lastCall.args[1] = undirCalls[Len(undirCalls)].a
                /\ lastCall.args[2] = undirCalls[Len(undirCalls)].b
                /\ ret = <<lastCall.elen, lastCall.elen + 1>>
                /\ Len(graph.edges) = lastCall.elen + 2
                /\ At(graph.edges, ret[1]) = lastCall.args[3]
                /\ At(graph.edges, ret[2]) = lastCall.args[3])
    /\ [][\A k \in 1..Len(graph.edges) :
            graph'.edges[k] # graph.edges[k] =>
                /\ lastCall'.op = "index_mut_edge"
                /\ lastCall'.args[1] = k - 1]_vars

\* C3 witness: the first half of an undirected pair a # b has just been
\* overwritten and now differs from the second half
MirrorHalfOverwritten ==
    \E k \in 1..Len(undirCalls) :
        LET u == undirCalls[k]
        IN  /\ u.a # u.b
            /\ lastCall.op = "index_mut_edge"
            /\ lastCall.args[1] = u.r[1]
            /\ At(graph.edges, u.r[1]) # At(graph.edges, u.r[2])

(***************************************************************************)
(* Construction and indexing with arbitrary handles: a handle value may    *)
(* lie beyond the allocated slots (stale, or taken from another graph)     *)
(***************************************************************************)
AnyNodeRefs == 0..MaxNodes
AnyEdgeRefs == 0..InvMaxEdges

InvalidNext ==
    \/ \E n \in Payloads : Len(graph.nodes) < MaxNodes /\ Node(n)
    \/ \E from \in AnyNodeRefs, to \in AnyNodeRefs, e \in Payloads :
            Len(graph.edges) < InvMaxEdges /\ DirectedEdge(from, to, e)
    \/ \E a \in AnyNodeRefs, b \in AnyNodeRefs, e \in Payloads :
            Len(graph.edges) + 1 < InvMaxEdges /\ UndirectedEdge(a, b, e)
    \/ \E index \in AnyNodeRefs : IndexNode(index)
    \/ \E index \in AnyEdgeRefs : IndexEdge(index)
    \/ \E index \in AnyNodeRefs, n \in Payloads :
            IndexMutNode(index, n)
    \/ \E index \in AnyEdgeRefs, e \in Payloads :
            IndexMutEdge(index, e)

InvalidSpec == Init /\ [][InvalidNext]_vars

\* C8: a directed_edge call given a from or a to handle outside the
\* allocated node slots, and an indexed access given a handle outside the
\* allocated slots, faults at that call instead of completing.
InvalidHandleFailsFast ==
    /\ lastCall.op = "directed_edge" =>
        ((lastCall.args[1] >= lastCall.nlen \/ lastCall.args[2] >= lastCall.nlen)
            => fault)
    /\ lastCall.op \in {"index_node", "index_mut_node"} =>
        (lastCall.args[1] >= lastCall.nlen => fault)
    /\ lastCall.op \in {"index_edge", "index_mut_edge"} =>
        (lastCall.args[1] >= lastCall.elen => fault)

(***************************************************************************)
(* Traversals.  A traversal borrows the graph, so no construction call     *)
(* interleaves with it; each step below is one piece of straight-line      *)
(* code of dfs / bfs.  A visitor invocation is recorded in events.         *)
(***************************************************************************)
NodeVisit(n) == [kind |-> "node", id |-> n]
EdgeVisit(e) == [kind |-> "edge", id |-> e]

\* vec![false; self.nodes.len()]
NoneVisited(g) == [k \in 1..Len(g.nodes) |-> FALSE]

\* a dfs(graph, visited, node, ..) activation: pc "entry" before the visited
\* check, pc "loop" inside the for loop, i adjacency entries consumed
Frame(n) == [node |-> n, i |-> 0, pc |-> "entry"]

Top == stack[Len(stack)]

\* Graph::visit_dfs: allocate visited, call dfs on begin.idx
VisitDfs(b) ==
    /\ Callable
    /\ mode' = "dfs"
    /\ begin' = b
    /\ visited' = NoneVisited(graph)
    /\ stack' = <<Frame(b)>>
    /\ events' = <<>>
    /\ lastCall' = Call("visit_dfs", <<b>>)
    /\ ret' = <<>>
    /\ UNCHANGED <<graph, fault, nodeCalls, edgeCalls, undirCalls, queue, pushes>>

\* return from the current dfs activation; the outermost return ends visit_dfs
DfsPop ==
    /\ stack' = SubSeq(stack, 1, Len(stack) - 1)
    /\ mode' = IF Len(stack) = 1 THEN "dfs_done" ELSE mode

\* dfs entry with the visited check placed after the node visitor call
DfsEnterCheckLate ==
    /\ mode = "dfs" /\ stack # <<>> /\ Top.pc = "entry"
    /\ events' = Append(events, NodeVisit(Top.node))
    /\ IF At(visited, Top.node)
       THEN /\ DfsPop
            /\ UNCHANGED visited
       ELSE /\ visited' = [visited EXCEPT ![Top.node + 1] = TRUE]
            /\ stack' = [stack EXCEPT ![Len(stack)].pc = "loop"]
            /\ UNCHANGED mode
    /\ UNCHANGED <<begin, queue, pushes>>
    /\ UNCHANGED buildVars

\* dfs entry: return if visited[node], else node_visitor, visited[node] = true
DfsEnter ==
    /\ mode = "dfs" /\ stack # <<>> /\ Top.pc = "entry"
    /\ IF At(visited, Top.node)
       THEN /\ DfsPop
            /\ UNCHANGED <<visited, events>>
       ELSE /\ events' = Append(events, NodeVisit(Top.node))
            /\ visited' = [visited EXCEPT ![Top.node + 1] = TRUE]
            /\ stack' = [stack EXCEPT ![Len(stack)].pc = "loop"]
            /\ UNCHANGED mode
    /\ UNCHANGED <<begin, queue, pushes>>
    /\ UNCHANGED buildVars

\* dfs for loop body firing the edge visitor only for an unvisited neighbour
DfsEdgeSkipVisited ==
    /\ mode = "dfs" /\ stack # <<>> /\ Top.pc = "loop"
    /\ Top.i < Len(At(graph.adjacency, Top.node))
    /\ LET adj == At(At(graph.adjacency, Top.node), Top.i)
       IN  /\ events' = IF At(visited, adj.node) THEN events
                        ELSE Append(events, EdgeVisit(adj.edge))
           /\ stack' = Append([stack EXCEPT ![Len(stack)].i = @ + 1], Frame(adj.node))
    /\ UNCHANGED <<mode, begin, visited, queue, pushes>>
    /\ UNCHANGED buildVars

\* dfs for loop body: edge_visitor(adj.edge, ..), then dfs(.., adj.node.idx, ..)
DfsEdge ==
    /\ mode = "dfs" /\ stack # <<>> /\ Top.pc = "loop"
    /\ Top.i < Len(At(graph.adjacency, Top.node))
    /\ LET adj == At(At(graph.adjacency, Top.node), Top.i)
       IN  /\ events' = Append(events, EdgeVisit(adj.edge))
           /\ stack' = Append([stack EXCEPT ![Len(stack)].i = @ + 1], Frame(adj.node))
    /\ UNCHANGED <<mode, begin, visited, queue, pushes>>
    /\ UNCHANGED buildVars

\* dfs for loop exhausted: the activation returns
DfsReturn ==
    /\ mode = "dfs" /\ stack # <<>> /\ Top.pc = "loop"
    /\ Top.i = Len(At(graph.adjacency, Top.node))
    /\ DfsPop
    /\ UNCHANGED <<begin, visited, queue, events, pushes>>
    /\ UNCHANGED buildVars

\* Graph::visit_bfs / bfs prologue: allocate visited, queue.push_back(begin)
VisitBfs(b) ==
    /\ Callable
    /\ mode' = "bfs"
    /\ begin' = b
    /\ visited' = NoneVisited(graph)
    /\ queue' = <<b>>
    /\ pushes' = 1
    /\ stack' = <<>>
    /\ events' = <<>>
    /\ lastCall' = Call("visit_bfs", <<b>>)
    /\ ret' = <<>>
    /\ UNCHANGED <<graph, fault, nodeCalls, edgeCalls, undirCalls>>

\* bfs loop head peeking at the front and popping it only when unvisited
BfsPopPeek ==
    /\ mode = "bfs" /\ stack = <<>> /\ queue # <<>>
    /\ IF At(visited, Head(queue))
       THEN UNCHANGED <<queue, visited, events, stack>>
       ELSE /\ queue' = Tail(queue)
            /\ events' = Append(events, NodeVisit(Head(queue)))
            /\ visited' = [visited EXCEPT ![Head(queue) + 1] = TRUE]
            /\ stack' = <<[Frame(Head(queue)) EXCEPT !.pc = "loop"]>>
    /\ UNCHANGED <<mode, begin, pushes>>
    /\ UNCHANGED buildVars

\* bfs loop head without the visited check
BfsPopNoCheck ==
    /\ mode = "bfs" /\ stack = <<>> /\ queue # <<>>
    /\ queue' = Tail(queue)
    /\ events' = Append(events, NodeVisit(Head(queue)))
    /\ visited' = [visited EXCEPT ![Head(queue) + 1] = TRUE]
    /\ stack' = <<[Frame(Head(queue)) EXCEPT !.pc = "loop"]>>
    /\ UNCHANGED <<mode, begin, pushes>>
    /\ UNCHANGED buildVars

\* bfs loop head: pop_front; continue if visited, else node_visitor,
\* visited[node] = true and enter the for loop
BfsPop ==
    /\ mode = "bfs" /\ stack = <<>> /\ queue # <<>>
    /\ queue' = Tail(queue)
    /\ IF At(visited, Head(queue))
       THEN UNCHANGED <<visited, events, stack>>
       ELSE /\ events' = Append(events, NodeVisit(Head(queue)))
            /\ visited' = [visited EXCEPT ![Head(queue) + 1] = TRUE]
            /\ stack' = <<[Frame(Head(queue)) EXCEPT !.pc = "loop"]>>
    /\ UNCHANGED <<mode, begin, pushes>>
    /\ UNCHANGED buildVars

\* bfs for loop body: edge_visitor(adj.edge, ..), queue.push_back(adj.node.idx)
BfsEdge ==
    /\ mode = "bfs" /\ stack # <<>>
    /\ Top.i < Len(At(graph.adjacency, Top.node))
    /\ LET adj == At(At(graph.adjacency, Top.node), Top.i)
       IN  /\ events' = Append(events, EdgeVisit(adj.edge))
           /\ queue' = Append(queue, adj.node)
    /\ pushes' = pushes + 1
    /\ stack' = [stack EXCEPT ![Len(stack)].i = @ + 1]
    /\ UNCHANGED <<mode, begin, visited>>
    /\ UNCHANGED buildVars

\* bfs for loop exhausted: back to the loop head
BfsLoopEnd ==
    /\ mode = "bfs" /\ stack # <<>>
    /\ Top.i = Len(At(graph.adjacency, Top.node))
    /\ stack' = <<>>
    /\ UNCHANGED <<mode, begin, visited, queue, events, pushes>>
    /\ UNCHANGED buildVars

\* bfs loop head with an empty queue: pop_front yields None, bfs returns
BfsExit ==
    /\ mode = "bfs" /\ stack = <<>> /\ queue = <<>>
    /\ mode' = "bfs_done"
    /\ UNCHANGED <<begin, visited, queue, stack, events, pushes>>
    /\ UNCHANGED buildVars

\* the node visitor invocations, as visit_dfs_nodes / visit_bfs_nodes see them
NodeVisits == SelectSeq(events, LAMBDA ev : ev.kind = "node")

\* the edge visitor invocations, as visit_dfs_edges / visit_bfs_edges see them
EdgeVisits == SelectSeq(events, LAMBDA ev : ev.kind = "edge")

DfsStep ==
    \/ DfsEnter
    \/ DfsEdge
    \/ DfsReturn

BfsStep ==
    \/ BfsPop
    \/ BfsEdge
    \/ BfsLoopEnd
    \/ BfsExit

\* build any graph, then run one depth-first traversal from any node
DfsNext ==
    \/ Len(graph.nodes) < TravMaxNodes /\ Node(0)
    \/ \E from \in NodeRefs, to \in NodeRefs :
            Len(graph.edges) < TravMaxEdges /\ DirectedEdge(from, to, 0)
    \/ \E b \in NodeRefs : VisitDfs(b)
    \/ DfsStep

DfsSpec == Init /\ [][DfsNext]_vars

\* build any graph, then run one breadth-first traversal from any node
BfsNext ==
    \/ Len(graph.nodes) < TravMaxNodes /\ Node(0)
    \/ \E from \in NodeRefs, to \in NodeRefs :
            Len(graph.edges) < TravMaxEdges /\ DirectedEdge(from, to, 0)
    \/ \E b \in NodeRefs : VisitBfs(b)
    \/ BfsStep

BfsSpec == Init /\ [][BfsNext]_vars

LiveNext ==
    \/ Len(graph.nodes) < LiveMaxNodes /\ Node(0)
    \/ \E from \in NodeRefs, to \in NodeRefs :
            Len(graph.edges) < LiveMaxEdges /\ DirectedEdge(from, to, 0)
    \/ \E b \in NodeRefs : VisitDfs(b)
    \/ \E b \in NodeRefs : VisitBfs(b)
    \/ DfsStep
    \/ BfsStep

\* dfs and bfs keep running once called: the code is sequential and nothing
\* preempts it
LiveSpec == Init /\ [][LiveNext]_vars /\ WF_vars(DfsStep \/ BfsStep)

(***************************************************************************)
(* Properties of the traversals                                            *)
(***************************************************************************)
\* the edges whose source lies in S, by the incidence table
EdgesFrom(g, S) == { e \in 0..(Len(g.incidence) - 1) : At(g.incidence, e).from \in S }

\* the nodes at most k directed edges away from s
RECURSIVE Within(_, _, _)
Within(g, s, k) ==
    IF k = 0 THEN {s}
    ELSE LET W == Within(g, s, k - 1)
         IN  W \cup { At(g.incidence, e).to : e \in EdgesFrom(g, W) }

Reachable(g, s) == Within(g, s, Len(g.nodes))

\* directed edge-count distance from s to each node reachable from s
Distances(g, s) ==
    LET W == [k \in 0..Len(g.nodes) |-> Within(g, s, k)]
    IN  [v \in W[Len(g.nodes)] |->
            CHOOSE k \in 0..Len(g.nodes) :
                /\ v \in W[k]
                /\ \A j \in 0..(k - 1) : v \notin W[j]]

\* position of edge e in the adjacency list of its source
AdjPos(g, e) ==
    CHOOSE i \in 1..Len(At(g.adjacency, At(g.incidence, e).from)) :
        At(g.adjacency, At(g.incidence, e).from)[i].edge = e

\* C4: visit_dfs / visit_dfs_nodes invoke the node visitor exactly once for
\* each node reachable from the start node and never for another node.
DfsVisitsReachableOnce ==
    mode \in {"dfs", "dfs_done"} =>
        LET R == Reachable(graph, begin)
            NV == NodeVisits
        IN  /\ \A k \in DOMAIN NV : NV[k].id \in R
            /\ \A j, k \in DOMAIN NV : j # k => NV[j] # NV[k]
            /\ mode = "dfs_done" => \A n \in R : \E k \in DOMAIN NV : NV[k] = NodeVisit(n)

\* C4 witness: a finished dfs on a graph with a cycle through the start
\* node and an unreachable node
DfsDoneOnCyclicGraph ==
    /\ mode = "dfs_done"
    /\ Len(NodeVisits) >= 2
    /\ \E n \in NodeRefs : n \notin Reachable(graph, begin)
    /\ \E e \in EdgeRefs :
        /\ At(graph.incidence, e).to = begin
        /\ At(graph.incidence, e).from # begin
        /\ At(graph.incidence, e).from \in Reachable(graph, begin)

DfsEdgeVisitOrder ==
    mode \in {"dfs", "dfs_done"} =>
        LET R == Reachable(graph, begin)
            EV == EdgeVisits
        IN  /\ \A k \in DOMAIN EV :
                /\ EV[k].id \in EdgeRefs
                /\ At(graph.incidence, EV[k].id).from \in R
            /\ \A j, k \in DOMAIN EV : j # k => EV[j] # EV[k]
            /\ mode = "dfs_done" =>
                \A e \in EdgesFrom(graph, R) : \E k \in DOMAIN EV : EV[k] = EdgeVisit(e)
            /\ \A k \in DOMAIN events :
                IF events[k].kind = "edge"
                THEN LET src == At(graph.incidence, events[k].id).from
                     IN  /\ \E j \in 1..(k - 1) : events[j] = NodeVisit(src)
                         /\ \A j \in 1..(k - 1) :
                                (/\ events[j].kind = "edge"
                                 /\ At(graph.incidence, events[j].id).from = src)
                                    => AdjPos(graph, events[j].id)
                                            < AdjPos(graph, events[k].id)
                ELSE IF k = 1
                     THEN events[k].id = begin
                     ELSE /\ events[k - 1].kind = "edge"
                          /\ At(graph.incidence, events[k - 1].id).to = events[k].id

\* C9 witness: a finished dfs in which an edge into an already visited node
\* fired while an edge of an unreachable node exists
DfsDoneWithBackEdge ==
    /\ mode = "dfs_done"
    /\ \E k \in DOMAIN events :
        /\ events[k].kind = "edge"
        /\ \E j \in 1..(k - 1) : events[j] = NodeVisit(At(graph.incidence, events[k].id).to)
    /\ \E e \in EdgeRefs : At(graph.incidence, e).from \notin Reachable(graph, begin)

\* C10: visit_dfs and visit_bfs terminate, and bfs makes at most 1 + (number
\* of edges whose source is reachable from the start node) queue insertions.
TraversalsTerminate ==
    /\ (mode = "dfs") ~> (mode = "dfs_done")
    /\ (mode = "bfs") ~> (mode = "bfs_done")
    /\ [](mode \in {"bfs", "bfs_done"} =>
            pushes <= 1 + Cardinality(EdgesFrom(graph, Reachable(graph, begin))))

\* C10 witness: a finished bfs on a graph with a cycle through the start
\* node where every edge of a reachable node caused a queue insertion and
\* some node was enqueued more than once
BfsDoneOnCyclicGraph ==
    /\ mode = "bfs_done"
    /\ pushes = 1 + Cardinality(EdgesFrom(graph, Reachable(graph, begin)))
    /\ pushes > Len(NodeVisits)
    /\ \E e \in EdgeRefs :
        /\ At(graph.incidence, e).to = begin
        /\ At(graph.incidence, e).from \in Reachable(graph, begin)

(***************************************************************************)
(* Flow solver                                                             *)
(***************************************************************************)
\* Graph::max_flow: the body declares the locals i and flow_on_path and ends;
\* it searches no path, accumulates nothing and yields no i32 (its value is
\* the empty tuple of a block that ends in a statement)
max_flow(g, from, to) == <<>>

\* Graph::min_cut as a stub returning 0
min_cut_stub(g, from, to) == <<0>>

\* Graph::min_cut: self.max_flow(from, to)
min_cut(g, from, to) == max_flow(g, from, to)

MaxFlow(from, to) ==
    /\ Callable
    /\ ret' = max_flow(graph, from, to)
    /\ lastCall' = Call("max_flow", <<from, to>>)
    /\ UNCHANGED <<graph, fault, nodeCalls, edgeCalls, undirCalls>>
    /\ UNCHANGED travVars

MinCut(from, to) ==
    /\ Callable
    /\ ret' = min_cut(graph, from, to)
    /\ lastCall' = Call("min_cut", <<from, to>>)
    /\ UNCHANGED <<graph, fault, nodeCalls, edgeCalls, undirCalls>>
    /\ UNCHANGED travVars

\* build any capacity graph, query it at any time
FlowNext ==
    \/ Len(graph.nodes) < FlowMaxNodes /\ Node(0)
    \/ \E from \in NodeRefs, to \in NodeRefs, cap \in 0..MaxCap :
            Len(graph.edges) < FlowMaxEdges /\ DirectedEdge(from, to, cap)
    \/ \E from \in NodeRefs, to \in NodeRefs : MaxFlow(from, to)
    \/ \E from \in NodeRefs, to \in NodeRefs : MinCut(from, to)

FlowSpec == Init /\ [][FlowNext]_vars

(***************************************************************************)
(* Properties of the flow solver                                           *)
(***************************************************************************)
RECURSIVE SumOver(_, _)
SumOver(f, S) ==
    IF S = {} THEN 0
    ELSE LET e == CHOOSE x \in S : TRUE
         IN  f[e] + SumOver(f, S \ {e})

\* flow f leaving node v minus flow f entering v
NetOut(g, f, v) ==
    SumOver(f, { e \in DOMAIN f : g.incidence[e].from = v })
        - SumOver(f, { e \in DOMAIN f : g.incidence[e].to = v })

\* the value of a maximum flow from s to t: the largest net outflow of s over
\* all assignments within the capacities that conserve flow at every other
\* node; 0 by convention when s = t
MaxFlowValue(g, s, t) ==
    IF s = t THEN 0
    ELSE LET E == 1..Len(g.edges)
             Caps == UNION { {g.edges[e]} : e \in E }
             Top0 == IF Caps = {} THEN 0 ELSE CHOOSE c \in Caps : \A d \in Caps : d <= c
             Feasible ==
                { f \in [E -> 0..Top0] :
                    /\ \A e \in E : f[e] <= g.edges[e]
                    /\ \A v \in 0..(Len(g.nodes) - 1) :
                        v \notin {s, t} => NetOut(g, f, v) = 0 }
             Values == { NetOut(g, f, s) : f \in Feasible }
         IN  CHOOSE x \in Values : \A y \in Values : y <= x

\* C6: max_flow(from, to) returns the value of a maximum flow from `from`
\* to `to`.
MaxFlowReturnsMaximumFlow ==
    lastCall.op = "max_flow" =>
        ret = <<MaxFlowValue(graph, lastCall.args[1], lastCall.args[2])>>

====
